---- MODULE Spec2Model ----
(***************************************************************************)
(* The resumable RDAP availability checker, scripts/check_availability.py. *)
(*                                                                         *)
(* The disk (patterns.txt, checkpoint_{tld}.json, available_{tld}.txt,     *)
(* taken_{tld}.txt) outlives a process; everything else is the memory of   *)
(* the one running process, main(), followed statement by statement so     *)
(* that KeyboardInterrupt and an abrupt kill can arrive between any two    *)
(* statements of the loop.  Words are numbered 1, 2, ... in the order of   *)
(* patterns.txt (generate_patterns.py writes them sorted and unique).  The *)
(* registry holds each word as free, registered or failing, the same every *)
(* time it is asked; how a failing lookup fails may differ between asks.   *)
(* Python indexes from 0: patterns[i] of the code is patterns[i + 1] here. *)
(* The timestamps started_at / updated_at of the checkpoint and the log    *)
(* file are left out: nothing in the program reads them.                   *)
(***************************************************************************)
EXTENDS Integers, Sequences, FiniteSets, TLC

\* ------------------------------------------------------------------ bounds
\* Words of patterns.txt that an earlier invocation has already processed.
Base == 98
\* Words of patterns.txt beyond those (and the length of a fresh list).
MaxNew == 2
\* Invocations of the script in one behaviour.
MaxRuns == 2
\* Words of the list that one process goes through from its first word on.
Long == 101

\* --------------------------------------------------------- program constants
\* Progress is logged and saved when checked % 100 = 0.
CheckpointEvery == 100
\* delay = 60.0 / rate
SecondsPerMinute == 60

\* RDAP_ENDPOINTS: the TLDs that have an endpoint.
RDAP_ENDPOINTS ==
  [t \in {"ai", "io", "com", "net"} |->
     IF t \in {"ai", "io"} THEN "https://rdap.identitydigital.services/rdap/domain/"
     ELSE IF t = "com" THEN "https://rdap.verisign.com/com/v1/domain/"
     ELSE "https://rdap.verisign.com/net/v1/domain/"]

\* A lookup that falls back to the first endpoint for a TLD it does not know.
EndpointWithDefault(tld) ==
  IF tld \in DOMAIN RDAP_ENDPOINTS THEN RDAP_ENDPOINTS[tld] ELSE RDAP_ENDPOINTS["ai"]

\* RDAP_ENDPOINTS.get(tld): None for a TLD that is not in the table.
Endpoint(tld) == IF tld \in DOMAIN RDAP_ENDPOINTS THEN RDAP_ENDPOINTS[tld] ELSE "None"

\* --------------------------------------------------------------- the inputs
\* --tld: one configured TLD and one that RDAP_ENDPOINTS does not know.
TLDs == {"ai", "xx"}
\* --rate, checks per minute.
Rates == {20, 30}
\* --limit: 0 is unlimited.
Limits == {0, 1}

\* What requests.get can do: a response with a status code, or an exception.
Response(exc, code) == [exc |-> exc, status_code |-> code]
\* What the registry holds of a word, and what requests.get can then do.
Holdings == {"free", "registered", "failing"}
Answers(holding) ==
  IF holding = "free" THEN {Response("none", 404)}
  ELSE IF holding = "registered" THEN {Response("none", 200)}
  ELSE {Response("none", 503), Response("Timeout", 0),
        Response("RequestException", 0)}

\* A registry for the words before Base: a few free, a few registered, the
\* rest failing.
PrefixHolding(w) ==
  IF w % 10 = 1 THEN "free" ELSE IF w % 10 = 2 THEN "registered" ELSE "failing"

\* ------------------------------------------------------------------- state
VARIABLES
  patterns_txt,    \* disk: whether patterns.txt exists, and its lines
  registry,        \* the registry: word -> free, registered or failing
  checkpoint_file, \* disk, per tld: Absent, Unparseable, or a saved state
  available_txt,   \* disk, per tld: the lines of available_{tld}.txt
  taken_txt,       \* disk, per tld: the lines of taken_{tld}.txt
  pc,              \* where main() is; "idle" when no process runs
  args,            \* argparse's result: tld, rate, limit
  patterns,        \* main's list of words
  state,           \* main's checkpoint dict
  i,               \* the loop's index (0-based)
  response,        \* history: what requests.get did for patterns[i]
  result,          \* check_rdap's return value: "True", "False", "None"
  available_buf,   \* lines written to available_file and not yet flushed
  taken_buf,       \* lines written to taken_file and not yet flushed
  exc,             \* how the try block was left: "none" (the loop ended),
                   \* "break", or the exception raised
  outcome,         \* how the last process ended
  runs,            \* invocations so far
  lookups,         \* requests issued by this process
  since_lookup,    \* seconds slept since this process's last request
  snap,            \* history: state and files when this iteration began
  prior            \* history: the checkpoint file as save_checkpoint found it

disk == <<patterns_txt, registry, checkpoint_file, available_txt, taken_txt>>
memory == <<args, patterns, state, i, result, available_buf, taken_buf, exc>>
history == <<response, lookups, since_lookup, snap, prior>>
vars == <<disk, memory, history, pc, outcome, runs>>

\* ------------------------------------------------------------ pure helpers
\* A checkpoint file is a saved state, or one of these two: no file, and a
\* file that open(..., 'w') has truncated or json.dump has written in part.
Absent == [last_index |-> -1, checked |-> 0, available |-> 0, taken |-> 0, errors |-> 0]
Unparseable == [last_index |-> -2, checked |-> 0, available |-> 0, taken |-> 0, errors |-> 0]

\* load_checkpoint's default state.
DefaultState ==
  [last_index |-> 0, checked |-> 0, available |-> 0, taken |-> 0, errors |-> 0]

NoArgs == [tld |-> "ai", rate |-> 30, limit |-> 0]
NoResponse == Response("unset", 0)
NoSnap == [state |-> DefaultState, available |-> <<>>, taken |-> <<>>]

\* f"{word}.{tld}"
Domain(word, tld) == <<word, tld>>

\* A classification that takes every status other than 404 for a registration.
rdap_result_else_taken(resp) ==
  IF resp.exc \in {"Timeout", "RequestException"} THEN "None"
  ELSE IF resp.exc # "none" THEN "raise"
  ELSE IF resp.status_code = 404 THEN "True"
  ELSE "False"

\* A classification that catches the timeout only.
rdap_result_timeout_only(resp) ==
  IF resp.exc = "Timeout" THEN "None"
  ELSE IF resp.exc # "none" THEN "raise"
  ELSE IF resp.status_code = 404 THEN "True"
  ELSE IF resp.status_code = 200 THEN "False"
  ELSE "None"

\* check_rdap after the request: the status code decides, and both exceptions
\* of requests are caught ("raise" would be one that is not).
rdap_result(resp) ==
  IF resp.exc \in {"Timeout", "RequestException"} THEN "None"
  ELSE IF resp.exc # "none" THEN "raise"
  ELSE IF resp.status_code = 404 THEN "True"
  ELSE IF resp.status_code = 200 THEN "False"
  ELSE "None"

\* check_rdap's return value for a word the registry holds as `holding`: the
\* same for every answer the registry can give.
ResultOf(holding) == rdap_result(CHOOSE r \in Answers(holding) : TRUE)

\* The quotient the wrong way round.
DelayInverted(rate) == rate \div SecondsPerMinute

\* delay = 60.0 / rate (the rates of the model divide 60).
Delay(rate) == SecondsPerMinute \div rate

\* The counter an iteration increments for a result.
Counted(st, res) ==
  IF res = "True" THEN [st EXCEPT !.available = @ + 1]
  ELSE IF res = "False" THEN [st EXCEPT !.taken = @ + 1]
  ELSE [st EXCEPT !.errors = @ + 1]

\* A load that starts from the default state when the file cannot be parsed.
load_checkpoint_or_default(file) ==
  IF file \in {Absent, Unparseable} THEN DefaultState ELSE file

\* load_checkpoint: the default state when there is no file, else what
\* json.load returns; for a file it cannot parse json.load raises, which is
\* Unparseable here.
load_checkpoint(file) == IF file = Absent THEN DefaultState ELSE file

\* The words 1..n in order.
Words(n) == [w \in 1..n |-> w]

\* What a process sees of a file it appends to: the disk and its own buffer.
AvailableView == available_txt[args.tld] \o available_buf
TakenView == taken_txt[args.tld] \o taken_buf

\* One pass of main's loop over all of `words` from a fresh checkpoint, with
\* no limit and nothing interrupting it: every word looked up once and
\* counted once, one line per free word and one per registered word, in the
\* order of the words.
FileOf(words, reg, res, tld) ==
  LET hit == SelectSeq(words, LAMBDA w : ResultOf(reg[w]) = res)
  IN [k \in 1..Len(hit) |-> Domain(hit[k], tld)]

FullRun(words, reg, tld) ==
  LET av == FileOf(words, reg, "True", tld)
      tk == FileOf(words, reg, "False", tld)
  IN [state |-> [last_index |-> Len(words), checked |-> Len(words),
                 available |-> Len(av), taken |-> Len(tk),
                 errors |-> Len(words) - Len(av) - Len(tk)],
      available |-> av, taken |-> tk]

\* -------------------------------------------------------------------- Init
\* Either patterns.txt is missing, or it holds a fresh list of at most MaxNew
\* words with no checkpoint, or it holds Base + n words of which an earlier
\* invocation for "ai" processed the first Base and saved its checkpoint.
InitDisk(base, n, reg) ==
  LET done == FullRun(Words(base), reg, "ai")
  IN /\ patterns_txt = [exists |-> TRUE, lines |-> Words(base + n)]
     /\ registry = reg
     /\ checkpoint_file =
          [t \in TLDs |-> IF t = "ai" /\ base > 0 THEN done.state ELSE Absent]
     /\ available_txt =
          [t \in TLDs |-> IF t = "ai" /\ base > 0 THEN done.available ELSE <<>>]
     /\ taken_txt =
          [t \in TLDs |-> IF t = "ai" /\ base > 0 THEN done.taken ELSE <<>>]

InitMemory ==
  /\ pc = "idle"
  /\ args = NoArgs
  /\ patterns = <<>>
  /\ state = DefaultState
  /\ i = 0
  /\ response = NoResponse
  /\ result = "unset"
  /\ available_buf = <<>>
  /\ taken_buf = <<>>
  /\ exc = "none"
  /\ outcome = "none"
  /\ runs = 0
  /\ lookups = 0
  /\ since_lookup = 0
  /\ snap = NoSnap
  /\ prior = Absent

Init ==
  /\ InitMemory
  /\ \/ /\ patterns_txt = [exists |-> FALSE, lines |-> <<>>]
        /\ registry = <<>>
        /\ checkpoint_file = [t \in TLDs |-> Absent]
        /\ available_txt = [t \in TLDs |-> <<>>]
        /\ taken_txt = [t \in TLDs |-> <<>>]
     \/ \E base \in {0, Base}, n \in 0..MaxNew :
          \E new \in [(base + 1)..(base + n) -> Holdings] :
            InitDisk(base, n,
                     [w \in 1..(base + n) |->
                        IF w <= base THEN PrefixHolding(w) ELSE new[w]])

\* A fresh list of Long words and no checkpoint: a few words free, a few
\* registered, the rest failing.
InitLong ==
  /\ InitMemory
  /\ InitDisk(0, Long, [w \in 1..Long |-> PrefixHolding(w)])

\* ------------------------------------------------------------ process exit
\* The process is gone: its memory with it.
Exit(how) ==
  /\ pc' = "idle"
  /\ outcome' = how
  /\ args' = NoArgs
  /\ patterns' = <<>>
  /\ state' = DefaultState
  /\ i' = 0
  /\ response' = NoResponse
  /\ result' = "unset"
  /\ exc' = "none"
  /\ lookups' = 0
  /\ since_lookup' = 0
  /\ snap' = NoSnap
  /\ prior' = Absent

\* ----------------------------------------------------------------- actions
\* python check_availability.py --tld t --rate r --limit l
StartWith(limits) ==
  /\ pc = "idle"
  /\ runs < MaxRuns
  /\ \E t \in TLDs, r \in Rates, l \in limits :
       args' = [tld |-> t, rate |-> r, limit |-> l]
  /\ runs' = runs + 1
  /\ pc' = "load_patterns"
  /\ outcome' = "running"
  /\ UNCHANGED <<disk, patterns, state, i, result, available_buf,
                 taken_buf, exc, history>>

Start == StartWith(Limits)
StartUnlimited == StartWith({0})
\* The first invocation only, without --limit.
StartOnce == runs = 0 /\ StartUnlimited

\* Lines 110-119: no patterns.txt prints an error and returns.
LoadPatterns ==
  /\ pc = "load_patterns"
  /\ \/ /\ ~patterns_txt.exists
        /\ Exit("NoPatterns")
        /\ UNCHANGED <<disk, available_buf, taken_buf, runs>>
     \/ /\ patterns_txt.exists
        /\ patterns' = patterns_txt.lines
        /\ pc' = "load_checkpoint"
        /\ UNCHANGED <<disk, args, state, i, result, available_buf,
                       taken_buf, exc, history, outcome, runs>>

\* Lines 121-122 and load_checkpoint: json.load raises on a file it cannot
\* parse, and nothing catches it.
LoadCheckpoint ==
  /\ pc = "load_checkpoint"
  /\ \/ /\ load_checkpoint(checkpoint_file[args.tld]) = Unparseable
        /\ Exit("JSONDecodeError")
        /\ UNCHANGED <<disk, available_buf, taken_buf, runs>>
     \/ /\ load_checkpoint(checkpoint_file[args.tld]) # Unparseable
        /\ state' = load_checkpoint(checkpoint_file[args.tld])
        /\ pc' = "resume"
        /\ UNCHANGED <<disk, args, patterns, i, result, available_buf,
                       taken_buf, exc, history, outcome, runs>>

\* A resume that takes the number of words checked for the index to start at.
ResumeFromChecked ==
  /\ pc = "resume"
  /\ \/ /\ Len(patterns) = 0
        /\ Exit("ZeroDivisionError")
        /\ UNCHANGED <<disk, available_buf, taken_buf, runs>>
     \/ /\ Len(patterns) # 0
        /\ i' = state.checked
        /\ pc' = "for"
        /\ UNCHANGED <<disk, args, patterns, state, result,
                       available_buf, taken_buf, exc, history, outcome, runs>>

\* Lines 123-128: start_index, the log line that divides by total_patterns,
\* and the two files opened for appending.
Resume ==
  /\ pc = "resume"
  /\ \/ /\ Len(patterns) = 0
        /\ Exit("ZeroDivisionError")
        /\ UNCHANGED <<disk, available_buf, taken_buf, runs>>
     \/ /\ Len(patterns) # 0
        /\ i' = state.last_index
        /\ pc' = "for"
        /\ UNCHANGED <<disk, args, patterns, state, result,
                       available_buf, taken_buf, exc, history, outcome, runs>>

\* Line 131: the next item of enumerate(patterns[start_index:]), or the end.
For ==
  /\ pc = "for"
  /\ \/ /\ i >= Len(patterns)
        /\ pc' = "fsave_open"
        /\ UNCHANGED snap
     \/ /\ i < Len(patterns)
        /\ pc' = "limit"
        /\ snap' = [state |-> state, available |-> AvailableView,
                    taken |-> TakenView]
  /\ UNCHANGED <<disk, memory, response, lookups, since_lookup, prior,
                 outcome, runs>>

\* A limit test that lets one more word through.
LimitExceeded(limit, st) == limit # 0 /\ st.checked > limit

\* Lines 132-134: if args.limit and state['checked'] >= args.limit: break
LimitReached(limit, st) == limit # 0 /\ st.checked >= limit

Limit ==
  /\ pc = "limit"
  /\ IF LimitReached(args.limit, state)
       THEN exc' = "break" /\ pc' = "fsave_open"
       ELSE pc' = "check_rdap" /\ UNCHANGED exc
  /\ UNCHANGED <<disk, args, patterns, state, i, result, available_buf,
                 taken_buf, history, outcome, runs>>

\* Lines 136-137 and check_rdap: an unknown TLD raises ValueError before the
\* request; otherwise one request, whose answer or exception is classified.
CheckRdap ==
  /\ pc = "check_rdap"
  /\ \/ /\ Endpoint(args.tld) = "None"
        /\ exc' = "ValueError"
        /\ pc' = "fsave_open"
        /\ UNCHANGED <<response, result, lookups, since_lookup>>
     \/ /\ Endpoint(args.tld) # "None"
        /\ response' \in Answers(registry[patterns[i + 1]])
        /\ lookups' = lookups + 1
        /\ since_lookup' = 0
        /\ IF rdap_result(response') = "raise"
             THEN exc' = response'.exc /\ pc' = "fsave_open" /\ UNCHANGED result
             ELSE result' = rdap_result(response') /\ pc' = "classify"
                  /\ UNCHANGED exc
  /\ UNCHANGED <<disk, args, patterns, state, i, available_buf, taken_buf,
                 snap, prior, outcome, runs>>

\* Lines 139-151, first statement of the branch taken: the write to the
\* file's buffer, or errors += 1.
Classify ==
  /\ pc = "classify"
  /\ \/ /\ result = "True"
        /\ available_buf' = Append(available_buf, Domain(patterns[i + 1], args.tld))
        /\ pc' = "flush"
        /\ UNCHANGED <<taken_buf, state>>
     \/ /\ result = "False"
        /\ taken_buf' = Append(taken_buf, Domain(patterns[i + 1], args.tld))
        /\ pc' = "flush"
        /\ UNCHANGED <<available_buf, state>>
     \/ /\ result = "None"
        /\ state' = Counted(state, result)
        /\ pc' = "inc_checked"
        /\ UNCHANGED <<available_buf, taken_buf>>
  /\ UNCHANGED <<disk, args, patterns, i, result, exc, history,
                 outcome, runs>>

\* A write that is left in the buffer: no flush().
FlushLater ==
  /\ pc = "flush"
  /\ pc' = "count"
  /\ UNCHANGED <<disk, memory, history, outcome, runs>>

\* Lines 141 / 146: flush() moves the buffer to the file.
Flush ==
  /\ pc = "flush"
  /\ available_txt' = [available_txt EXCEPT ![args.tld] = @ \o available_buf]
  /\ taken_txt' = [taken_txt EXCEPT ![args.tld] = @ \o taken_buf]
  /\ available_buf' = <<>>
  /\ taken_buf' = <<>>
  /\ pc' = "count"
  /\ UNCHANGED <<patterns_txt, registry, checkpoint_file, args, patterns, state,
                 i, result, exc, history, outcome, runs>>

\* Lines 142 / 147: state['available'] += 1 or state['taken'] += 1.
Count ==
  /\ pc = "count"
  /\ state' = Counted(state, result)
  /\ pc' = "inc_checked"
  /\ UNCHANGED <<disk, args, patterns, i, result, available_buf,
                 taken_buf, exc, history, outcome, runs>>

\* Line 153: state['checked'] += 1
IncChecked ==
  /\ pc = "inc_checked"
  /\ state' = [state EXCEPT !.checked = @ + 1]
  /\ pc' = "set_last_index"
  /\ UNCHANGED <<disk, args, patterns, i, result, available_buf,
                 taken_buf, exc, history, outcome, runs>>

\* Line 154: state['last_index'] = i + 1
SetLastIndex ==
  /\ pc = "set_last_index"
  /\ state' = [state EXCEPT !.last_index = i + 1]
  /\ pc' = "progress"
  /\ UNCHANGED <<disk, args, patterns, i, result, available_buf,
                 taken_buf, exc, history, outcome, runs>>

\* A checkpoint test that is true half as often.
SaveDueHalf(st) == st.checked % (2 * CheckpointEvery) = 0

\* Line 157: if state['checked'] % 100 == 0
SaveDue(st) == st.checked % CheckpointEvery = 0

Progress ==
  /\ pc = "progress"
  /\ pc' = IF SaveDue(state) THEN "psave_open" ELSE "sleep"
  /\ UNCHANGED <<disk, memory, history, outcome, runs>>

\* save_checkpoint, line 66: open(..., 'w') truncates the file.
save_open(to) ==
  /\ checkpoint_file' = [checkpoint_file EXCEPT ![args.tld] = Unparseable]
  /\ prior' = checkpoint_file[args.tld]
  /\ pc' = to
  /\ UNCHANGED <<patterns_txt, registry, available_txt, taken_txt, memory,
                 response, lookups, since_lookup, snap, outcome, runs>>

\* save_checkpoint, line 67: json.dump and the close of the with block.
save_dump(to) ==
  /\ checkpoint_file' = [checkpoint_file EXCEPT ![args.tld] = state]
  /\ pc' = to
  /\ UNCHANGED <<patterns_txt, registry, available_txt, taken_txt, memory,
                 history, outcome, runs>>

\* Line 163.
PeriodicSaveOpen == pc = "psave_open" /\ save_open("psave_dump")
PeriodicSaveDump == pc = "psave_dump" /\ save_dump("sleep")

\* Line 166: time.sleep(delay), and the loop goes to its next item.
Sleep ==
  /\ pc = "sleep"
  /\ since_lookup' = since_lookup + Delay(args.rate)
  /\ i' = i + 1
  /\ response' = NoResponse
  /\ pc' = "for"
  /\ UNCHANGED <<disk, args, patterns, state, result, available_buf,
                 taken_buf, exc, lookups, snap, prior, outcome, runs>>

\* Line 171.
FinalSaveOpen == pc = "fsave_open" /\ save_open("fsave_dump")
FinalSaveDump == pc = "fsave_dump" /\ save_dump("close")

\* How main ends after the finally clause: the summary is logged after the
\* loop ended, broke at the limit or was interrupted; an exception that was
\* not caught goes on.
Ending(e) ==
  IF e = "none" THEN "Completed"
  ELSE IF e = "break" THEN "LimitReached"
  ELSE IF e = "KeyboardInterrupt" THEN "Interrupted"
  ELSE e

\* Lines 172-183: close() flushes what the buffers still hold.
Close ==
  /\ pc = "close"
  /\ available_txt' = [available_txt EXCEPT ![args.tld] = @ \o available_buf]
  /\ taken_txt' = [taken_txt EXCEPT ![args.tld] = @ \o taken_buf]
  /\ available_buf' = <<>>
  /\ taken_buf' = <<>>
  /\ Exit(Ending(exc))
  /\ UNCHANGED <<patterns_txt, registry, checkpoint_file, runs>>

\* The statements of the try block, lines 131-166.
TryBlock ==
  {"for", "limit", "check_rdap", "classify", "flush", "count", "inc_checked",
   "set_last_index", "progress", "psave_open", "psave_dump", "sleep"}

\* An except clause that leaves without the finally clause's save.
InterruptUnsaved ==
  /\ pc \in TryBlock
  /\ exc' = "KeyboardInterrupt"
  /\ response' = NoResponse
  /\ pc' = "close"
  /\ UNCHANGED <<disk, args, patterns, state, i, result, available_buf,
                 taken_buf, lookups, since_lookup, snap, prior, outcome, runs>>

\* Lines 168-169: KeyboardInterrupt raised between two statements of the try
\* block (or inside the one that blocks) is caught; the finally clause runs.
Interrupt ==
  /\ pc \in TryBlock
  /\ exc' = "KeyboardInterrupt"
  /\ response' = NoResponse
  /\ pc' = "fsave_open"
  /\ UNCHANGED <<disk, args, patterns, state, i, result, available_buf,
                 taken_buf, lookups, since_lookup, snap, prior, outcome, runs>>

\* The process is killed (SIGKILL, power loss): no handler runs, the buffers
\* are lost, the disk stays as it is.
Kill ==
  /\ pc # "idle"
  /\ Exit("Killed")
  /\ available_buf' = <<>>
  /\ taken_buf' = <<>>
  /\ UNCHANGED <<disk, runs>>

\* The statements of main.
Step ==
  \/ LoadPatterns
  \/ LoadCheckpoint
  \/ Resume
  \/ For
  \/ Limit
  \/ CheckRdap
  \/ Classify
  \/ Flush
  \/ Count
  \/ IncChecked
  \/ SetLastIndex
  \/ Progress
  \/ PeriodicSaveOpen
  \/ PeriodicSaveDump
  \/ Sleep
  \/ FinalSaveOpen
  \/ FinalSaveDump
  \/ Close

Next == Start \/ Step \/ Interrupt \/ Kill

Spec == Init /\ [][Next]_vars

\* Every process ends by itself or by the interruption signal: none is killed.
NextHandled == Start \/ Step \/ Interrupt
SpecHandled == Init /\ [][NextHandled]_vars

\* Processes end by themselves or are killed: no interruption signal.
NextKilled == Start \/ Step \/ Kill
SpecKilled == Init /\ [][NextKilled]_vars

\* --limit is never given.
NextUnlimited == StartUnlimited \/ Step \/ Interrupt \/ Kill
SpecUnlimited == Init /\ [][NextUnlimited]_vars

\* One process over a fresh list of Long words, without --limit; it may be
\* interrupted or killed at any statement.
NextLong == StartOnce \/ Step \/ Interrupt \/ Kill
SpecLong == InitLong /\ [][NextLong]_vars

\* ------------------------------------------------------------------ claims
\* The iteration for patterns[i] has run all of lines 136-154.
AtIterationEnd == pc \in {"progress", "psave_open", "psave_dump", "sleep"}

\* checkpoint_{t}.json holds a saved state.
Persisted(t) == checkpoint_file[t] \notin {Absent, Unparseable}

NoDuplicate(lines) == \A a, b \in 1..Len(lines) : lines[a] = lines[b] => a = b

Is404(resp) == resp.exc = "none" /\ resp.status_code = 404
Is200(resp) == resp.exc = "none" /\ resp.status_code = 200

\* C1: runs stopped by the interruption signal at any point of the loop and
\* resumed until the list is exhausted leave the counters (checked,
\* available, taken, errors, last_index) that one uninterrupted run over the
\* full list leaves.
C1_ResumeSameCounters ==
  (pc = "idle" /\ outcome = "Completed")
    => checkpoint_file["ai"] = FullRun(patterns_txt.lines, registry, "ai").state

\* C2: whatever runs ended by completion, by the limit or by the interruption
\* signal came before, no domain is on two lines of the available file or on
\* two lines of the taken file.
C2_NoDuplicateLines ==
  \A t \in TLDs : NoDuplicate(available_txt[t]) /\ NoDuplicate(taken_txt[t])

\* C3: after processes were killed at any point and the script was run again
\* to the end of the list, every word is counted once in one counter and the
\* files hold one line per free word and one per registered word.
C3_ExactlyOnceAfterKill ==
  (pc = "idle" /\ outcome = "Completed")
    => LET full == FullRun(patterns_txt.lines, registry, "ai")
       IN /\ checkpoint_file["ai"] = full.state
          /\ available_txt["ai"] = full.available
          /\ taken_txt["ai"] = full.taken

\* C4: every saved checkpoint has checked = available + taken + errors.
C4_CountersAddUp ==
  \A t \in TLDs :
    Persisted(t) =>
      checkpoint_file[t].checked =
        checkpoint_file[t].available + checkpoint_file[t].taken
          + checkpoint_file[t].errors

\* C5: when --limit is never given, every saved checkpoint has
\* last_index = checked.
C5_LastIndexIsChecked ==
  \A t \in TLDs :
    Persisted(t) => checkpoint_file[t].last_index = checkpoint_file[t].checked

\* C6: at the end of every iteration the response has decided one effect:
\* 404 one more line in the available file and available + 1; 200 one more
\* line in the taken file and taken + 1; anything else no line and
\* errors + 1; and checked + 1 in all three.
C6_ClassificationEffect ==
  AtIterationEnd =>
    LET d == Domain(patterns[i + 1], args.tld)
        was == snap.state
    IN /\ state.checked = was.checked + 1
       /\ IF Is404(response)
            THEN /\ AvailableView = Append(snap.available, d)
                 /\ TakenView = snap.taken
                 /\ state.available = was.available + 1
                 /\ state.taken = was.taken
                 /\ state.errors = was.errors
          ELSE IF Is200(response)
            THEN /\ AvailableView = snap.available
                 /\ TakenView = Append(snap.taken, d)
                 /\ state.available = was.available
                 /\ state.taken = was.taken + 1
                 /\ state.errors = was.errors
          ELSE /\ AvailableView = snap.available
               /\ TakenView = snap.taken
               /\ state.available = was.available
               /\ state.taken = was.taken
               /\ state.errors = was.errors + 1

\* A fresh list of two words, the first free and the second registered, at
\* the end of the second iteration.
C6_Witness ==
  /\ pc = "sleep"
  /\ lookups = 2
  /\ Is200(response)
  /\ available_txt["ai"] = <<Domain(1, "ai")>>
  /\ taken_txt["ai"] = <<Domain(2, "ai")>>
  /\ state = [last_index |-> 2, checked |-> 2, available |-> 1, taken |-> 1,
              errors |-> 0]

\* C7: a process killed while save_checkpoint overwrites a saved checkpoint
\* leaves either the checkpoint that was there or the new one.
C7_AtomicPersist ==
  [][(/\ pc \in {"psave_dump", "fsave_dump"}
      /\ pc' = "idle"
      /\ prior \notin {Absent, Unparseable})
       => checkpoint_file'[args.tld] \in {prior, state}]_vars

\* C8: a request that is not the first of its process comes at least
\* 60 / rate seconds after the one before it, and nothing has slept before
\* the first.
C8_Pacing ==
  pc = "check_rdap" =>
    IF lookups = 0 THEN since_lookup = 0
    ELSE since_lookup * args.rate >= SecondsPerMinute

\* The second request of a process run with --rate 20, three seconds after
\* the first.
C8_Witness ==
  /\ pc = "check_rdap"
  /\ lookups = 1
  /\ args.rate = 20
  /\ since_lookup = 3
  /\ Endpoint(args.tld) # "None"

\* C9: a lookup that fails never leaves the loop by an exception: the
\* iteration ends with errors + 1, checked + 1 and last_index = i + 1 and
\* nothing else changed, and a loop that ends by itself has gone through the
\* whole list.
C9_FailureAbsorbed ==
  /\ exc \in {"none", "break", "KeyboardInterrupt", "ValueError"}
  /\ exc = "ValueError" => args.tld \notin DOMAIN RDAP_ENDPOINTS
  /\ (AtIterationEnd /\ ~Is404(response) /\ ~Is200(response))
       => /\ state = [snap.state EXCEPT !.errors = @ + 1, !.checked = @ + 1,
                                        !.last_index = i + 1]
          /\ AvailableView = snap.available
          /\ TakenView = snap.taken
          /\ exc = "none"
  /\ (pc = "close" /\ exc = "none") => state.last_index = Len(patterns)

\* A fresh list of two words whose lookups both failed, and the loop ended by
\* itself.
C9_Witness ==
  /\ pc = "close"
  /\ exc = "none"
  /\ lookups = 2
  /\ state = [last_index |-> 2, checked |-> 2, available |-> 0, taken |-> 0,
              errors |-> 2]

\* C10: a process run for a TLD without endpoint, unless interrupted or
\* killed, ends with the unknown-TLD ValueError.
C10_AlwaysUnknownRegistry ==
  [][(/\ args.tld \notin DOMAIN RDAP_ENDPOINTS
      /\ pc # "idle"
      /\ pc' = "idle"
      /\ outcome' \notin {"Interrupted", "Killed"})
       => outcome' = "ValueError"]_vars

\* C10, amended: a process run for a TLD without endpoint never issues a
\* request; when it comes to its first lookup it leaves the loop with the
\* unknown-TLD ValueError, and ends with it once the finally clause is done.
C10_UnknownRegistryAtLookup ==
  [][(args.tld \notin DOMAIN RDAP_ENDPOINTS /\ pc # "idle")
       => /\ lookups = 0 /\ lookups' = 0
          /\ (pc = "check_rdap" /\ pc' \notin {"idle", "check_rdap"}
                /\ exc' # "KeyboardInterrupt")
               => (exc' = "ValueError" /\ pc' = "fsave_open")
          /\ (pc = "close" /\ exc = "ValueError" /\ outcome' # "Killed")
               => outcome' = "ValueError"]_vars

\* The finally clause of a process run for "xx" has saved the checkpoint
\* under the ValueError.
C10_Witness ==
  /\ pc = "close"
  /\ args.tld = "xx"
  /\ exc = "ValueError"
  /\ lookups = 0

\* C11: a process that finds a checkpoint file json.load cannot parse ends
\* there with the JSONDecodeError (or is killed there): it has issued no
\* request, written no line and left every file, the checkpoint too, as it
\* found it.
C11_CorruptFailsLoudly ==
  [][(pc = "load_checkpoint" /\ checkpoint_file[args.tld] = Unparseable)
       => /\ pc' = "idle"
          /\ outcome' \in {"JSONDecodeError", "Killed"}
          /\ lookups = 0
          /\ UNCHANGED disk]_vars

\* A process was killed inside save_checkpoint, and the next one for "ai"
\* ended with the JSONDecodeError, the file still as the kill left it.
C11_Witness ==
  /\ pc = "idle"
  /\ outcome = "JSONDecodeError"
  /\ runs = 2
  /\ checkpoint_file["ai"] = Unparseable

\* C12: a process run with --limit L > 0 looks up min(L, words left from the
\* loaded last_index) words, whatever `checked` it loaded: never more than
\* L, and exactly L when it stops at the limit.
C12_LimitPerInvocation ==
  (pc # "idle" /\ args.limit > 0)
    => /\ lookups <= args.limit
       /\ exc = "break" => lookups = args.limit

\* The lines of an iteration, 136-154, between the limit test and the
\* checkpoint test.
InIteration ==
  pc \in {"check_rdap", "classify", "flush", "count", "inc_checked",
          "set_last_index"}

\* What the finally clause is about to save holds nothing of patterns[i].
NotAtAll ==
  /\ state = snap.state
  /\ AvailableView = snap.available
  /\ TakenView = snap.taken

\* What the finally clause is about to save holds all of patterns[i]: its
\* line if it was classified, its counter, checked and last_index = i + 1.
Fully ==
  LET d == Domain(patterns[i + 1], args.tld)
  IN /\ state = [Counted(snap.state, result) EXCEPT !.checked = @ + 1,
                                                   !.last_index = i + 1]
     /\ AvailableView = IF result = "True" THEN Append(snap.available, d)
                        ELSE snap.available
     /\ TakenView = IF result = "False" THEN Append(snap.taken, d)
                    ELSE snap.taken

\* C13: when KeyboardInterrupt arrives inside an iteration, what the finally
\* clause then saves (the state, and the files with what their buffers hold)
\* has the word of that iteration either fully or not at all.
C13_IterationAtomic ==
  [][(InIteration /\ exc' = "KeyboardInterrupt") => (NotAtAll \/ Fully)]_vars

\* main is past line 128: the loop has started.
LoopStarted == pc \notin {"idle", "load_patterns", "load_checkpoint", "resume"}

\* C14: a process that started the loop and is not killed ends only after
\* the finally clause: the list exhausted, the limit reached, the
\* interruption signal or an exception of the loop; and the checkpoint file
\* it leaves is its in-memory state.
C14_FinalPersist ==
  [][(LoopStarted /\ pc' = "idle")
       => /\ pc = "close"
          /\ outcome' \in {"Completed", "LimitReached", "Interrupted",
                           "ValueError"}
          /\ checkpoint_file'[args.tld] = state]_vars

\* The finally clause of an interrupted process has saved the one word it
\* counted.
C14_Witness ==
  /\ pc = "close"
  /\ exc = "KeyboardInterrupt"
  /\ state.checked = 1
  /\ checkpoint_file[args.tld] = state

\* The lines of a file follow the order of patterns.txt (a word is its own
\* number there); the same word twice in a row is not out of order.
InIndexOrder(lines) ==
  \A a, b \in 1..Len(lines) : a < b => lines[a][1] <= lines[b][1]

\* C15: the words are looked up in ascending order, also from one process to
\* the next, and their lines are appended in that order: each file is in the
\* order of patterns.txt, and the word about to be looked up does not come
\* before any word that already has its line.
C15_IndexOrder ==
  /\ \A t \in TLDs : InIndexOrder(available_txt[t]) /\ InIndexOrder(taken_txt[t])
  /\ pc = "check_rdap"
       => /\ InIndexOrder(Append(AvailableView, Domain(patterns[i + 1], args.tld)))
          /\ InIndexOrder(Append(TakenView, Domain(patterns[i + 1], args.tld)))

\* C16: when --limit is given and checked >= limit at the top of an
\* iteration, the loop is left there: no request, no line, no counter and no
\* last_index changed, last_index still the index of that word; and the
\* finally clause saves exactly that, so the next process loads it.
C16_LimitStopsClean ==
  [][/\ (/\ pc = "limit"
         /\ args.limit # 0
         /\ state.checked >= args.limit
         /\ pc' # "idle")
          => /\ pc' = "fsave_open"
             /\ lookups' = lookups
             /\ state' = state
             /\ state.last_index = i
             /\ i < Len(patterns)
             /\ UNCHANGED <<disk, available_buf, taken_buf>>
     /\ (pc = "close" /\ exc = "break")
          => /\ state = snap.state
             /\ state.last_index = i
             /\ checkpoint_file[args.tld] = state
             /\ AvailableView = snap.available
             /\ TakenView = snap.taken]_vars

\* A fresh list of two words run with --limit 1: the first word was looked
\* up, the loop left at the second, and the checkpoint saved with
\* last_index = 1.
C16_Witness ==
  /\ pc = "close"
  /\ exc = "break"
  /\ lookups = 1
  /\ i = 1
  /\ Len(patterns) = 2
  /\ checkpoint_file[args.tld].last_index = 1

\* The last_index a process finds on disk: 0 when there is no checkpoint.
SavedLastIndex(t) ==
  IF checkpoint_file[t] = Absent THEN 0 ELSE checkpoint_file[t].last_index

\* C17: a process starts its loop at the last_index of the checkpoint it
\* loaded (0 without checkpoint), whatever `checked` is; its first request
\* is for the word at that index, and its index never goes back.
C17_ResumeAtLastIndex ==
  [][/\ (pc = "resume" /\ pc' = "for") => i' = SavedLastIndex(args.tld)
     /\ (pc = "check_rdap" /\ lookups = 0 /\ lookups' = 1)
          => i = SavedLastIndex(args.tld)
     /\ (LoopStarted /\ pc' # "idle") => i' >= i]_vars

\* The second process of a list whose checkpoint says checked = 2 and
\* last_index = 1 is about to issue its first request, for the word at
\* index 1.
C17_Witness ==
  /\ pc = "check_rdap"
  /\ lookups = 0
  /\ Endpoint(args.tld) # "None"
  /\ checkpoint_file[args.tld].checked = 2
  /\ checkpoint_file[args.tld].last_index = 1
  /\ i = 1

\* C18: a process that has its list and its checkpoint, for a TLD that has
\* an endpoint, ends (unless it is killed) as completed (the list exhausted
\* or the limit reached) or interrupted; and the first process of a fresh
\* list, without --limit and without interruption, leaves
\* last_index = checked = the length of the list, a line in the available
\* file for every word answered 404 and no other, and a line in the taken
\* file for every word answered 200 and no other.
C18_EndsCompletedOrInterrupted ==
  [][(/\ pc \notin {"idle", "load_patterns", "load_checkpoint"}
      /\ pc' = "idle"
      /\ outcome' # "Killed"
      /\ args.tld \in DOMAIN RDAP_ENDPOINTS)
       => /\ outcome' \in {"Completed", "LimitReached", "Interrupted"}
          /\ (/\ outcome' = "Completed"
              /\ args.limit = 0
              /\ runs = 1
              /\ lookups = Len(patterns))
               => LET full == FullRun(patterns, registry, args.tld)
                  IN /\ checkpoint_file'[args.tld] = full.state
                     /\ available_txt'[args.tld] = full.available
                     /\ taken_txt'[args.tld] = full.taken]_vars

\* The lines of a file, as a set.
Lines(file) == {file[k] : k \in 1..Len(file)}

\* Every word of patterns.txt below index `upto` that is free (the registry
\* answers 404) has its line in `available`, and every one that is
\* registered (it answers 200) has its line in `taken`.
Covered(upto, available, taken, t) ==
  LET av == Lines(available)
      tk == Lines(taken)
  IN \A k \in 0..(upto - 1) :
       LET w == patterns_txt.lines[k + 1]
       IN /\ registry[w] = "free" => Domain(w, t) \in av
          /\ registry[w] = "registered" => Domain(w, t) \in tk

\* C19: the line of a word is in the file before the word is counted and
\* before a checkpoint that covers it is saved: at every moment, after a
\* kill too, every free or registered word below the saved last_index has
\* its line on disk; and once the iteration of a free or registered word has
\* counted it, its line is on disk too.
C19_LineBeforeCheckpoint ==
  /\ \A t \in TLDs :
       Persisted(t)
         => Covered(checkpoint_file[t].last_index, available_txt[t], taken_txt[t], t)
  /\ (pc = "inc_checked" \/ pc = "set_last_index" \/ AtIterationEnd)
       => LET d == Domain(patterns[i + 1], args.tld)
          IN /\ result = "True" => d \in Lines(available_txt[args.tld])
             /\ result = "False" => d \in Lines(taken_txt[args.tld])

\* A process was killed after it saved the checkpoint that covers the free
\* word behind the prefix: the line of that word is on disk.
C19_Witness ==
  /\ pc = "idle"
  /\ outcome = "Killed"
  /\ Persisted("ai")
  /\ checkpoint_file["ai"].last_index = Base + 2
  /\ registry[Base + 1] = "free"
  /\ Domain(Base + 1, "ai") \in Lines(available_txt["ai"])

\* How many words the state in memory has checked beyond the checkpoint on
\* disk (0 checked when there is no checkpoint file).
Lag ==
  state.checked
    - (IF Persisted(args.tld) THEN checkpoint_file[args.tld].checked ELSE 0)

\* Between two iterations: the last one has run to its end, its checkpoint
\* test and save included, and the next has not yet counted its word.
BetweenIterations ==
  pc \in {"sleep", "for", "limit", "check_rdap", "classify", "flush", "count",
          "inc_checked"}

\* C20: while a process runs, after every iteration that ran to its end the
\* state in memory has checked fewer than 100 words more than the checkpoint
\* on disk.
C20_LagBelowHundred ==
  BetweenIterations => (0 <= Lag /\ Lag < CheckpointEvery)

\* The hundredth iteration of a process that started without checkpoint has
\* run to its end: the checkpoint on disk, saved by that iteration, has
\* checked = 100.
C20_Witness ==
  /\ pc = "sleep"
  /\ lookups = CheckpointEvery
  /\ state.checked = CheckpointEvery
  /\ Persisted(args.tld)
  /\ checkpoint_file[args.tld].checked = CheckpointEvery
====
